---- MODULE Spec2Model ----
(***************************************************************************)
(* Model of src/app.py: the join-request queue (requests_queue), the       *)
(* background loop process_queue, the worker approve_single_request and    *)
(* the enqueue path add_request_to_queue with its direct-approval          *)
(* fallback.                                                               *)
(*                                                                         *)
(* The program runs on one asyncio event loop, so control changes hands    *)
(* only at an await that really suspends: the transport calls              *)
(* (approve_chat_join_request, send_photo, send_message) and asyncio.sleep.*)
(* The pymongo calls are blocking calls and update_stats / save_user never *)
(* suspend.  Each action below is the code between two such suspensions.   *)
(***************************************************************************)
EXTENDS Integers, Sequences, FiniteSets, TLC

\* ---------------------------------------------------------------- bounds
MaxEvents == 2       \* join events delivered in one run
MaxWait == 1         \* largest FloodWait.value the transport signals
MaxPreload == 11     \* documents already in requests_queue at start (SpecBatch)
MaxUsers == 21       \* documents already in users_collection (SpecBroadcast)
MaxErrors == 1       \* recipients of a broadcast whose send ends with an error
MaxFloods == 2       \* FloodWait signals in one broadcast run
MaxMessages == 4     \* private messages delivered to the bot
MaxUpdates == 3      \* update_one calls applied to one stored document (SpecStore)

\* ------------------------------------------------------ program constants
BatchLimit == 10     \* .limit(10)
MaxRetries == 3      \* if retry_count >= 3
ChunkSize == 20      \* chunk_size of the broadcast loop
ProgressEvery == 10  \* a status update every 10 handled recipients

Chats == {"A", "B"}

\* Outcomes of client.approve_chat_join_request.  UserDeactivated stands for
\* the class caught by `except (UserDeactivated, PeerIdInvalid)`.
ApproveOutcomes == {"ok", "FloodWait", "UserDeactivated", "ChatAdminRequired", "Error"}
\* Outcomes of client.send_photo / client.send_message.
NotifyOutcomes == {"ok", "FloodWait", "Error"}

VARIABLES
    db,         \* TRUE iff the MongoDB collections are not None
    queue,      \* requests_queue: documents, indexed by _id
    now,        \* datetime.utcnow(), a logical clock
    events,     \* join events delivered so far
    pq_pc,      \* position of process_queue
    batch,      \* process_queue: requests
    idx,        \* process_queue: index of `request` in requests
    pqw,        \* the approve_single_request invocation made by process_queue
    h_pc,       \* position of add_request_to_queue
    ev,         \* the join event add_request_to_queue last handled
    fb,         \* the approve_single_request invocation made as fallback
    hist,       \* history kept for the retry claims (SpecRetry)
    users,      \* users_collection: documents, indexed by user_id
    welcome,    \* settings_collection: message_id of "welcome_message", 0 if none
    msgs,       \* private messages delivered so far; a message's id
    cmd,        \* the private message last handled
    bc          \* the broadcast run (handle_broadcast_message / broadcast_command)

\* the variables of the queue, and those of the commands and the broadcast
qvars == <<db, queue, now, events, pq_pc, batch, idx, pqw, h_pc, ev, fb, hist>>
uvars == <<users, welcome, msgs, cmd, bc>>
vars == <<db, queue, now, events, pq_pc, batch, idx, pqw, h_pc, ev, fb, hist,
          users, welcome, msgs, cmd, bc>>

Min(a, b) == IF a < b THEN a ELSE b

\* ------------------------------------------------------------- documents
NewRequest(id, t, chat, user) ==
    [_id |-> id, timestamp |-> t, chat_id |-> chat, user_id |-> user,
     processed |-> FALSE, retries |-> 0,
     failed |-> FALSE, error |-> "none", approved_at |-> 0]

\* update_one({"_id": id}, {"$set": {"processed": True, "approved_at": utcnow()}})
MarkProcessed(q, id, t) ==
    [q EXCEPT ![id].processed = TRUE, ![id].approved_at = t]

\* update_one({"_id": id}, {"$set": {"processed": True, "error": str(e), "failed": True}})
MarkFailed(q, id, e) ==
    [q EXCEPT ![id].processed = TRUE, ![id].error = e, ![id].failed = TRUE]

\* a $inc that is not applied
IncRetriesLost(q, id) == q

\* update_one({"_id": id}, {"$inc": {"retries": 1}})
IncRetries(q, id) ==
    [q EXCEPT ![id].retries = @ + 1]

\* a find without the {"processed": False} filter
FindAll(q) == 1..Len(q)

\* find({"processed": False})
FindUnprocessed(q) == {i \in 1..Len(q) : ~q[i].processed}

\* .sort("timestamp", 1) over the documents with ids S
RECURSIVE SortByTimestamp(_, _)
SortByTimestamp(q, S) ==
    IF S = {} THEN <<>>
    ELSE LET m == CHOOSE i \in S : \A j \in S :
                      \/ q[i].timestamp < q[j].timestamp
                      \/ q[i].timestamp = q[j].timestamp /\ i <= j
         IN  <<q[m]>> \o SortByTimestamp(q, S \ {m})

\* .limit(n)
Limit(s, n) == SubSeq(s, 1, Min(n, Len(s)))

\* the query without .limit(10)
FetchBatchNoLimit(q) == SortByTimestamp(q, FindUnprocessed(q))

\* list(requests_queue.find({"processed": False}).sort("timestamp", 1).limit(10))
FetchBatch(q) == Limit(SortByTimestamp(q, FindUnprocessed(q)), BatchLimit)

\* ------------------------------------------- approve_single_request frames
IdleFrame ==
    [pc |-> "idle",
     calls |-> 0, ok |-> 0, sleeps |-> 0, wait |-> 0, slept |-> 0,
     notify |-> "none",
     stat |-> [recorded |-> FALSE, approved |-> FALSE, error |-> "none"],
     ret |-> "none", exc |-> "none"]

\* the call approve_single_request(client, chat_id, user_id, ...), up to its
\* first await
NewFrame ==
    [IdleFrame EXCEPT !.pc = "approve"]

\* update_stats(chat_id, user_id, approved, error): the document handed to
\* stats_collection
UpdateStats(f, approved, error) ==
    [f EXCEPT !.stat = [recorded |-> TRUE, approved |-> approved, error |-> error]]

\* update_stats(approved=True); save_user(); return True
ReturnTrue(f) ==
    [UpdateStats(f, TRUE, "none") EXCEPT !.pc = "done", !.ret = "True"]

\* the handlers `except (UserDeactivated, PeerIdInvalid)`, `except
\* ChatAdminRequired` and `except Exception`: update_stats(error=str(e));
\* return False
ReturnFalse(f, e) ==
    [UpdateStats(f, FALSE, e) EXCEPT !.pc = "done", !.ret = "False"]

\* `except FloodWait as e`, up to `await asyncio.sleep(e.value)`
CatchFloodWait(f, w) ==
    [f EXCEPT !.pc = "flood_sleep", !.wait = w]

\* the first `await client.approve_chat_join_request(...)` returns o
OnApprove(f, o, w) ==
    LET g == [f EXCEPT !.calls = @ + 1,
                       !.ok = @ + (IF o = "ok" THEN 1 ELSE 0)]
    IN  CASE o = "ok" -> [g EXCEPT !.pc = "photo"]
          [] o = "FloodWait" -> CatchFloodWait(g, w)
          [] OTHER -> ReturnFalse(g, o)

\* `await client.send_photo(...)` returns o
OnSendPhoto(f, o, w) ==
    CASE o = "ok" -> [f EXCEPT !.pc = "message"]
      [] o = "FloodWait" -> CatchFloodWait([f EXCEPT !.notify = o], w)
      [] OTHER -> ReturnFalse([f EXCEPT !.notify = o], o)

\* `await client.send_message(...)` returns o
OnSendMessage(f, o, w) ==
    CASE o = "ok" -> ReturnTrue(f)
      [] o = "FloodWait" -> CatchFloodWait([f EXCEPT !.notify = o], w)
      [] OTHER -> ReturnFalse([f EXCEPT !.notify = o], o)

\* `await asyncio.sleep(e.value)` returns
OnSleep(f) ==
    [f EXCEPT !.pc = "retry", !.sleeps = @ + 1, !.slept = @ + f.wait]

\* a FloodWait handler that waits again on a second FloodWait
PropagateOrWaitAgain(f, o) ==
    IF o = "FloodWait"
    THEN [f EXCEPT !.pc = "flood_sleep"]
    ELSE [f EXCEPT !.pc = "done", !.ret = "raise", !.exc = o]

\* the second `await client.approve_chat_join_request(...)`, inside the
\* FloodWait handler, returns o; whatever it raises leaves the function
Propagate(f, o) ==
    [f EXCEPT !.pc = "done", !.ret = "raise", !.exc = o]

OnRetry(f, o) ==
    LET g == [f EXCEPT !.calls = @ + 1,
                       !.ok = @ + (IF o = "ok" THEN 1 ELSE 0)]
    IN  IF o = "ok" THEN ReturnTrue(g) ELSE Propagate(g, o)

\* ------------------------------------------------------------------ history
\* hist.attempts[id]: how many times process_queue has handed document id to
\* approve_single_request (counted up to MaxRetries + 1); hist.writeFailed:
\* an update_one of process_queue has raised; hist.approvals[id]: the calls
\* of approve_chat_join_request for document id that returned (counted up to
\* 2); hist.late[id]: such a call was made after one had returned.  Kept only
\* while hist.track.
NoHistory(track) ==
    [track |-> track, attempts |-> <<>>, writeFailed |-> FALSE,
     approvals |-> <<>>, late |-> <<>>]

Inserted(h) ==
    IF h.track
    THEN [h EXCEPT !.attempts = Append(@, 0), !.approvals = Append(@, 0),
                   !.late = Append(@, FALSE)]
    ELSE h

\* the worker frame went from f to g for document id
Called(h, id, f, g) ==
    IF h.track /\ g.calls > f.calls
    THEN [h EXCEPT !.late[id] = @ \/ h.approvals[id] >= 1,
                   !.approvals[id] = Min(@ + (g.ok - f.ok), 2)]
    ELSE h

Handed(h, id) ==
    IF h.track THEN [h EXCEPT !.attempts[id] = Min(@ + 1, MaxRetries + 1)] ELSE h

WriteFailed(h) ==
    IF h.track THEN [h EXCEPT !.writeFailed = TRUE] ELSE h

\* ------------------------------------------------------------ process_queue
\* `if requests_queue is None: return`, else enter `while True`
ProcessQueueStart ==
    /\ pq_pc = "start"
    /\ pq_pc' = IF db THEN "fetch" ELSE "returned"
    /\ UNCHANGED <<db, queue, now, events, batch, idx, pqw, h_pc, ev, fb, hist>>
    /\ UNCHANGED uvars

\* the find at the head of the loop: it raises (outer except, sleep 5), or
\* returns no request (sleep 1), or returns the batch the for loop walks
ProcessQueueFetch ==
    /\ pq_pc = "fetch"
    /\ \E found \in BOOLEAN :
         IF ~found
         THEN pq_pc' = "sleep5" /\ UNCHANGED <<batch, idx>>
         ELSE LET requests == FetchBatch(queue)
              IN  IF requests = <<>>
                  THEN pq_pc' = "sleep1_idle" /\ UNCHANGED <<batch, idx>>
                  ELSE pq_pc' = "for" /\ batch' = requests /\ idx' = 0
    /\ UNCHANGED <<db, queue, now, events, pqw, h_pc, ev, fb, hist>>
    /\ UNCHANGED uvars

\* `for request in requests`: the next request enters approve_single_request;
\* after the last one, `await asyncio.sleep(1)`
ProcessQueueFor ==
    /\ pq_pc = "for"
    /\ IF idx < Len(batch)
       THEN /\ idx' = idx + 1
            /\ pqw' = NewFrame
            /\ pq_pc' = "work"
            /\ hist' = Handed(hist, batch[idx + 1]._id)
            /\ UNCHANGED batch
       ELSE /\ pq_pc' = "sleep1_batch"
            /\ batch' = <<>> /\ idx' = 0
            /\ pqw' = IdleFrame
            /\ UNCHANGED hist
    /\ UNCHANGED <<db, queue, now, events, h_pc, ev, fb>>
    /\ UNCHANGED uvars

\* the seconds process_queue sleeps at each of its sleeps
SleepSeconds(pc) ==
    CASE pc = "sleep1_idle" -> 1
      [] pc = "sleep1_batch" -> 1
      [] pc = "sleep5" -> 5
      [] OTHER -> 0

\* asyncio.sleep(1) / asyncio.sleep(5) returns: back to the head of the loop
ProcessQueueWake ==
    /\ pq_pc \in {"sleep1_idle", "sleep1_batch", "sleep5"}
    /\ pq_pc' = "fetch"
    /\ pqw' = IdleFrame
    /\ UNCHANGED <<db, queue, now, events, batch, idx, h_pc, ev, fb, hist>>
    /\ UNCHANGED uvars

\* the comparison written as `>` instead of `>=`
RetryThresholdStrict(retry_count) == retry_count > MaxRetries

\* `if retry_count >= 3`
RetryThreshold(retry_count) == retry_count >= MaxRetries

\* the inner `except Exception as e` of process_queue, for `request`:
\* stored is TRUE iff its update_one does not raise; when it raises, the outer
\* `except Exception` ends the batch and sleeps 5
HandleFailure(request, e, stored) ==
    LET retry_count == request.retries + 1
    IN  IF stored
        THEN /\ queue' = IF RetryThreshold(retry_count)
                         THEN MarkFailed(queue, request._id, e)
                         ELSE IncRetries(queue, request._id)
             /\ pq_pc' = "for"
             /\ UNCHANGED <<batch, idx>>
        ELSE /\ pq_pc' = "sleep5"
             /\ batch' = <<>> /\ idx' = 0
             /\ UNCHANGED queue

\* what process_queue does when approve_single_request(request) ends as the
\* frame f: the result is not looked at, the request is marked processed;
\* an exception (of the worker, or of that update_one) goes to the handler
AfterWorker(request, f, h) ==
    \E marked \in BOOLEAN, stored \in BOOLEAN :
        IF f.ret = "raise"
        THEN /\ HandleFailure(request, f.exc, stored)
             /\ hist' = IF stored THEN h ELSE WriteFailed(h)
        ELSE IF marked
             THEN /\ queue' = MarkProcessed(queue, request._id, now)
                  /\ pq_pc' = "for"
                  /\ hist' = h
                  /\ UNCHANGED <<batch, idx>>
             ELSE /\ HandleFailure(request, "StoreError", stored)
                  /\ hist' = WriteFailed(h)

\* ------------------------------------------------- add_request_to_queue
NoEvent == [n |-> 0, chat_id |-> "none", user_id |-> 0, result |-> "none", item |-> 0]

\* handle_join_request -> add_request_to_queue, up to its return or to the
\* first await of the fallback approve_single_request
AddRequestToQueue ==
    /\ h_pc = "idle"
    /\ events < MaxEvents
    /\ events' = events + 1
    /\ \E chat \in Chats, inserted \in BOOLEAN :
         LET user == events + 1
             e == [n |-> events + 1, chat_id |-> chat, user_id |-> user,
                   result |-> "none", item |-> 0]
         IN  IF ~db
             THEN /\ ev' = [e EXCEPT !.result = "no_store"]
                  /\ h_pc' = "return"
                  /\ UNCHANGED <<queue, now, fb, hist>>
             ELSE IF inserted
                  THEN /\ queue' = Append(queue, NewRequest(Len(queue) + 1, now, chat, user))
                       /\ now' = now + 1
                       /\ ev' = [e EXCEPT !.result = "queued", !.item = Len(queue) + 1]
                       /\ h_pc' = "return"
                       /\ hist' = Inserted(hist)
                       /\ UNCHANGED fb
                  ELSE /\ ev' = [e EXCEPT !.result = "fallback"]
                       /\ fb' = NewFrame
                       /\ h_pc' = "fallback"
                       /\ now' = now + 1
                       /\ UNCHANGED <<queue, hist>>
    /\ UNCHANGED <<db, pq_pc, batch, idx, pqw>>
    /\ UNCHANGED uvars

\* handle_join_request returns: the event and the fallback's frame are gone
HandleJoinRequestReturn ==
    /\ h_pc = "return"
    /\ h_pc' = "idle"
    /\ ev' = NoEvent
    /\ fb' = IdleFrame
    /\ UNCHANGED <<db, queue, now, events, pq_pc, batch, idx, pqw, hist>>
    /\ UNCHANGED uvars

\* ------------------------------------------------ the worker's transitions
Frame(who) == IF who = "pq" THEN pqw ELSE fb

Running(who, pc) ==
    /\ IF who = "pq" THEN pq_pc = "work" ELSE h_pc = "fallback"
    /\ Frame(who).pc = pc

\* the frame of `who` becomes g; when g has ended, its caller goes on:
\* process_queue with AfterWorker, add_request_to_queue by returning (an
\* exception of the fallback is logged)
Continue(who, g) ==
    IF who = "pq"
    THEN /\ pqw' = g
         /\ LET h == Called(hist, batch[idx]._id, pqw, g)
            IN  IF g.pc = "done"
                THEN AfterWorker(batch[idx], g, h)
                ELSE /\ hist' = h
                     /\ UNCHANGED <<queue, pq_pc, batch, idx>>
         /\ UNCHANGED <<db, now, events, h_pc, ev, fb>>
         /\ UNCHANGED uvars
    ELSE /\ fb' = g
         /\ h_pc' = IF g.pc = "done" THEN "return" ELSE h_pc
         /\ UNCHANGED <<db, queue, now, events, pq_pc, batch, idx, pqw, ev, hist>>
         /\ UNCHANGED uvars

ApproveCall(who) ==
    /\ Running(who, "approve")
    /\ \E o \in ApproveOutcomes, w \in 1..MaxWait : Continue(who, OnApprove(Frame(who), o, w))

SendPhoto(who) ==
    /\ Running(who, "photo")
    /\ \E o \in NotifyOutcomes, w \in 1..MaxWait : Continue(who, OnSendPhoto(Frame(who), o, w))

SendMessage(who) ==
    /\ Running(who, "message")
    /\ \E o \in NotifyOutcomes, w \in 1..MaxWait : Continue(who, OnSendMessage(Frame(who), o, w))

FloodSleep(who) ==
    /\ Running(who, "flood_sleep")
    /\ Continue(who, OnSleep(Frame(who)))

RetryApprove(who) ==
    /\ Running(who, "retry")
    /\ \E o \in ApproveOutcomes : Continue(who, OnRetry(Frame(who), o))

\* ------------------------------------------------------------ specification
\* the private-message handlers and the broadcast at rest: no user document,
\* no welcome message, no message delivered, no run
NoMessage == [kind |-> "none", user |-> 0, id |-> 0]

NoRun ==
    [pc |-> "idle", at |-> "none", recipients |-> <<>>, total |-> 0, plan |-> {},
     chunk |-> 0, pos |-> 0, successful |-> 0, failed |-> 0,
     floods |-> 0, wait |-> 0, waits |-> 0, elapsed |-> 0,
     snapshots |-> 0, finals |-> 0, lost |-> FALSE, sent |-> <<>>]

NoCommands ==
    /\ users = <<>>
    /\ welcome = 0
    /\ msgs = 0
    /\ cmd = NoMessage
    /\ bc = NoRun

Init ==
    /\ db \in BOOLEAN
    /\ queue = <<>>
    /\ now = 1
    /\ events = 0
    /\ pq_pc = "start"
    /\ batch = <<>>
    /\ idx = 0
    /\ pqw = IdleFrame
    /\ h_pc = "idle"
    /\ ev = NoEvent
    /\ fb = IdleFrame
    /\ hist = NoHistory(FALSE)
    /\ NoCommands

Next ==
    \/ ProcessQueueStart
    \/ ProcessQueueFetch
    \/ ProcessQueueFor
    \/ ProcessQueueWake
    \/ AddRequestToQueue
    \/ HandleJoinRequestReturn
    \/ \E who \in {"pq", "fb"} :
         \/ ApproveCall(who)
         \/ SendPhoto(who)
         \/ SendMessage(who)
         \/ FloodSleep(who)
         \/ RetryApprove(who)

Spec == Init /\ [][Next]_vars

\* the queue with its history kept: the store is reachable, one join request
\* is still to arrive, every hand-over of its document to
\* approve_single_request is counted
InitRetry ==
    /\ db = TRUE
    /\ queue = <<>>
    /\ now = 1
    /\ events = MaxEvents - 1
    /\ pq_pc = "start"
    /\ batch = <<>>
    /\ idx = 0
    /\ pqw = IdleFrame
    /\ h_pc = "idle"
    /\ ev = NoEvent
    /\ fb = IdleFrame
    /\ hist = NoHistory(TRUE)
    /\ NoCommands

SpecRetry == InitRetry /\ [][Next]_vars

\* A run that starts on a store left by earlier runs: n documents, each
\* either still unprocessed or marked processed.  Their timestamps are wall
\* clock readings (datetime.utcnow()): in _id order, or, the clock having
\* been set back between the inserts, against it.
PreloadedQueue(n, done, setBack) ==
    [i \in 1..n |->
        LET t == IF setBack THEN n + 1 - i ELSE i
            d == NewRequest(i, t, "A", i)
        IN  IF i \in done THEN MarkProcessed(<<d>>, 1, n + 1)[1] ELSE d]

InitBatch ==
    /\ db = TRUE
    /\ \E n \in 0..MaxPreload : \E done \in SUBSET (1..n), setBack \in BOOLEAN :
         /\ queue = PreloadedQueue(n, done, setBack)
         /\ now = n + 2
    /\ events = 0
    /\ pq_pc = "start"
    /\ batch = <<>>
    /\ idx = 0
    /\ pqw = IdleFrame
    /\ h_pc = "idle"
    /\ ev = NoEvent
    /\ fb = IdleFrame
    /\ hist = NoHistory(FALSE)
    /\ NoCommands

NextBatch ==
    \/ ProcessQueueStart
    \/ ProcessQueueFetch
    \/ ProcessQueueWake

\* process_queue's fetch applied to every store content of up to MaxPreload
\* documents
SpecBatch == InitBatch /\ [][NextBatch]_vars

\* The queue under the scheduling the event loop gives: the process_queue
\* task is resumed whenever the await it is suspended at has returned (every
\* transport call and every sleep returns), and from some point on no store
\* operation of process_queue raises.  A store operation raises in the find
\* (sleep5 follows), in the update_one of the handler (sleep5 follows) or in
\* the update_one that marks the document processed (the handler then writes
\* the retry of an invocation that had returned).
ProcessQueueStep ==
    \/ ProcessQueueStart
    \/ ProcessQueueFetch
    \/ ProcessQueueFor
    \/ ProcessQueueWake
    \/ ApproveCall("pq")
    \/ SendPhoto("pq")
    \/ SendMessage("pq")
    \/ FloodSleep("pq")
    \/ RetryApprove("pq")

StoreFault ==
    \/ pq_pc # "sleep5" /\ pq_pc' = "sleep5"
    \/ /\ pq_pc = "work" /\ pq_pc' = "for"
       /\ pqw'.ret \in {"True", "False"}
       /\ ~queue'[batch[idx]._id].processed

InitLive ==
    /\ db = TRUE
    /\ queue = <<>>
    /\ now = 1
    /\ events = MaxEvents - 2
    /\ pq_pc = "start"
    /\ batch = <<>>
    /\ idx = 0
    /\ pqw = IdleFrame
    /\ h_pc = "idle"
    /\ ev = NoEvent
    /\ fb = IdleFrame
    /\ hist = NoHistory(FALSE)
    /\ NoCommands

SpecLive ==
    /\ InitLive
    /\ [][Next]_vars
    /\ WF_vars(ProcessQueueStep)
    /\ <>[][~StoreFault]_vars

\* The three update_one calls of process_queue as the store applies them: the
\* filter is {"_id": request["_id"]} alone, so each applies to the document
\* whatever its state (a document written since it was fetched, by another
\* process_queue on the same collection).  One document, found in any state.
StoredRequest(retries, status) ==
    LET d == <<[NewRequest(1, 1, "A", 1) EXCEPT !.retries = retries]>>
    IN  CASE status = "Pending" -> d
          [] status = "Processed" -> MarkProcessed(d, 1, 1)
          [] status = "Failed" -> MarkFailed(d, 1, "Error")

InitStore ==
    /\ db = TRUE
    /\ \E retries \in 0..(MaxRetries - 1), status \in {"Pending", "Processed", "Failed"} :
         queue = StoredRequest(retries, status)
    /\ now = 2
    /\ events = 0
    /\ pq_pc = "start"
    /\ batch = <<>>
    /\ idx = 0
    /\ pqw = IdleFrame
    /\ h_pc = "idle"
    /\ ev = NoEvent
    /\ fb = IdleFrame
    /\ hist = NoHistory(FALSE)
    /\ NoCommands

StoreUpdate(q) ==
    /\ now < MaxUpdates + 2
    /\ queue' = q
    /\ now' = now + 1
    /\ UNCHANGED <<db, events, pq_pc, batch, idx, pqw, h_pc, ev, fb, hist>>
    /\ UNCHANGED uvars

UpdateMarkProcessed == \E id \in 1..Len(queue) : StoreUpdate(MarkProcessed(queue, id, now))

UpdateMarkFailed ==
    \E id \in 1..Len(queue), e \in ApproveOutcomes \ {"ok"} :
        StoreUpdate(MarkFailed(queue, id, e))

UpdateIncRetries == \E id \in 1..Len(queue) : StoreUpdate(IncRetries(queue, id))

NextStore ==
    \/ UpdateMarkProcessed
    \/ UpdateMarkFailed
    \/ UpdateIncRetries

SpecStore == InitStore /\ [][NextStore]_vars

\* ---------------------------------------------------------- users_collection
\* The bot's users: ADMIN_IDS of config, and the users who write to the bot.
Admins == {1}
Actors == {1, 2}

\* a check that lets every user pass
IsUserAnyone(u) == TRUE

\* is_user_admin
IsUserAdmin(u) == u \in Admins

NewUser(u) ==
    [user_id |-> u, waiting_for_broadcast |-> FALSE, waiting_for_welcome |-> FALSE]

FindUser(us, u) == {k \in 1..Len(us) : us[k].user_id = u}

HasUser(us, u) == FindUser(us, u) # {}

UserDoc(us, u) == us[CHOOSE k \in FindUser(us, u) : TRUE]

\* the flag a document lacks reads as False (user.get(flag, False))
Waiting(us, u, flag) == HasUser(us, u) /\ UserDoc(us, u)[flag]

\* save_user: update_one with upsert=True; name and last_activity are not kept
SaveUser(us, u) == IF HasUser(us, u) THEN us ELSE Append(us, NewUser(u))

\* update_one({"user_id": u}, {"$set": {flag: v}}), without upsert
SetWaiting(us, u, flag, v) ==
    IF HasUser(us, u)
    THEN LET k == CHOOSE k \in FindUser(us, u) : TRUE
         IN  [us EXCEPT ![k] = [@ EXCEPT ![flag] = v]]
    ELSE us

\* fetch_all_users: the documents in their natural order
RECURSIVE FetchAllUsers(_)
FetchAllUsers(us) ==
    IF us = <<>> THEN <<>> ELSE <<us[1].user_id>> \o FetchAllUsers(Tail(us))

\* ------------------------------------------------------------- broadcast run
\* pc: the await the run is suspended at.  plan: the recipients whose send ends
\* with an error other than FloodWait.  chunk, pos: the two loop positions.
\* snapshots, finals: status updates issued.  lost: a status update has raised.
\* sent: the users whose copy_message_to_user has returned, in that order.
\* elapsed: seconds since start_time, a sleep lasting what was asked and every
\* other step no time, which is the shortest a run can take.
RECURSIVE PlansUpTo(_, _)
PlansUpTo(S, k) ==
    IF k = 0 THEN {{}}
    ELSE LET Q == PlansUpTo(S, k - 1) IN Q \cup {P \cup {x} : P \in Q, x \in S}

AtRest(b) == b.pc \in {"idle", "done", "raised"}

StartRun == [NoRun EXCEPT !.pc = "prepare"]

Raise(b) == [b EXCEPT !.pc = "raised", !.at = b.pc]

ChunkOf(b) == SubSeq(b.recipients, b.chunk + 1, Min(b.chunk + ChunkSize, b.total))

RecipientFromEnd(b) == ChunkOf(b)[Len(ChunkOf(b)) + 1 - b.pos]

Recipient(b) == ChunkOf(b)[b.pos]

FinalReport(b) == [b EXCEPT !.pc = "final", !.finals = @ + 1]

\* the two for loops: the first recipient, or the final report at once
EnterLoop(b) ==
    IF b.total > 0
    THEN [b EXCEPT !.pc = "copy", !.chunk = 0, !.pos = 1]
    ELSE FinalReport(b)

\* the next user of the chunk, else the first of the next chunk, else the end
NextRecipient(b) ==
    IF b.pos < Len(ChunkOf(b))
    THEN [b EXCEPT !.pc = "copy", !.pos = @ + 1]
    ELSE IF b.chunk + ChunkSize < b.total
         THEN [b EXCEPT !.pc = "copy", !.chunk = @ + ChunkSize, !.pos = 1]
         ELSE FinalReport(b)

ProgressDueAlways(n) == TRUE

\* if (successful + failed) % 10 == 0
ProgressDue(n) == n % ProgressEvery = 0

AfterCopy(b) ==
    LET c == [b EXCEPT !.sent = Append(@, Recipient(b))]
    IN  IF ProgressDue(c.successful + c.failed)
        THEN [c EXCEPT !.pc = "progress", !.snapshots = @ + 1]
        ELSE NextRecipient(c)

OnCopyAllSuccessful(b, o, w) ==
    IF o = "FloodWait"
    THEN [b EXCEPT !.pc = "flood_sleep", !.wait = w, !.waits = @ + w, !.floods = @ + 1]
    ELSE AfterCopy([b EXCEPT !.successful = @ + 1])

OnCopyFloodFails(b, o, w) ==
    IF o = "ok"
    THEN AfterCopy([b EXCEPT !.successful = @ + 1])
    ELSE AfterCopy([b EXCEPT !.failed = @ + 1, !.floods = @ + 1])

\* copy_message_to_user and the counting of its result: True counts as
\* successful, False as failed; FloodWait sleeps and calls itself again
OnCopy(b, o, w) ==
    CASE o = "ok" -> AfterCopy([b EXCEPT !.successful = @ + 1])
      [] o = "FloodWait" ->
           [b EXCEPT !.pc = "flood_sleep", !.wait = w, !.waits = @ + w, !.floods = @ + 1]
      [] OTHER -> AfterCopy([b EXCEPT !.failed = @ + 1])

\* asyncio.sleep(e.value) has returned
OnBroadcastSleep(b) == [b EXCEPT !.pc = "copy", !.elapsed = @ + b.wait, !.wait = 0]

\* what the send to the current recipient can do
CopyOutcomes(b) ==
    (IF b.floods < MaxFloods THEN {"FloodWait"} ELSE {})
    \cup {IF Recipient(b) \in b.plan THEN "Error" ELSE "ok"}

BroadcastStep(b) ==
    /\ bc' = b
    /\ UNCHANGED <<users, welcome, msgs, cmd>>
    /\ UNCHANGED qvars

\* message.reply("Preparing to broadcast...") has returned or raised; then
\* fetch_all_users, which returns [] when find raises
BroadcastPrepared ==
    /\ bc.pc = "prepare"
    /\ \E ok \in BOOLEAN, fetched \in BOOLEAN :
         IF ok
         THEN LET found == IF fetched THEN FetchAllUsers(users) ELSE <<>>
              IN  \E plan \in PlansUpTo({found[k] : k \in 1..Len(found)}, MaxErrors) :
                     BroadcastStep([bc EXCEPT !.pc = "starting", !.recipients = found,
                                              !.total = Len(found), !.plan = plan])
         ELSE BroadcastStep(Raise(bc))

\* status_message.edit_text("Starting broadcast to N users...")
BroadcastStarting ==
    /\ bc.pc = "starting"
    /\ \E ok \in BOOLEAN :
         BroadcastStep(IF ok THEN EnterLoop(bc) ELSE [Raise(bc) EXCEPT !.lost = TRUE])

CopyMessageToUser ==
    /\ bc.pc = "copy"
    /\ \E o \in CopyOutcomes(bc), w \in 1..MaxWait : BroadcastStep(OnCopy(bc, o, w))

BroadcastFloodSleep ==
    /\ bc.pc = "flood_sleep"
    /\ BroadcastStep(OnBroadcastSleep(bc))

\* the edit_text("Broadcasting...") in try / except Exception: pass
BroadcastProgress ==
    /\ bc.pc = "progress"
    /\ \E ok \in BOOLEAN :
         BroadcastStep(NextRecipient([bc EXCEPT !.lost = @ \/ ~ok]))

\* the edit_text("Broadcast completed!")
BroadcastFinal ==
    /\ bc.pc = "final"
    /\ \E ok \in BOOLEAN :
         BroadcastStep(IF ok THEN [bc EXCEPT !.pc = "done"] ELSE Raise(bc))

\* ------------------------------------------------------------------ commands
Deliver(kind, u) ==
    /\ msgs < MaxMessages
    /\ msgs' = msgs + 1
    /\ cmd' = [kind |-> kind, user |-> u, id |-> msgs + 1]

\* /broadcast sent as a reply to a message: the run starts in this handler
BroadcastCommandReply(u) ==
    /\ db /\ IsUserAdmin(u)
    /\ AtRest(bc)
    /\ Deliver("broadcast_reply", u)
    /\ bc' = StartRun
    /\ UNCHANGED <<users, welcome>>
    /\ UNCHANGED qvars

\* users_collection as earlier runs of the bot have left it
RECURSIVE FirstUsers(_)
FirstUsers(n) == IF n = 0 THEN <<>> ELSE Append(FirstUsers(n - 1), NewUser(n))

\* one /broadcast in reply to a message, over the users already saved
InitBroadcast ==
    /\ db = TRUE
    /\ queue = <<>>
    /\ now = 1
    /\ events = 0
    /\ pq_pc = "start"
    /\ batch = <<>>
    /\ idx = 0
    /\ pqw = IdleFrame
    /\ h_pc = "idle"
    /\ ev = NoEvent
    /\ fb = IdleFrame
    /\ hist = NoHistory(FALSE)
    /\ \E n \in 0..MaxUsers : users = FirstUsers(n)
    /\ welcome = 0
    /\ msgs = MaxMessages - 1
    /\ cmd = NoMessage
    /\ bc = NoRun

NextBroadcast ==
    \/ \E u \in Admins : BroadcastCommandReply(u)
    \/ BroadcastPrepared
    \/ BroadcastStarting
    \/ CopyMessageToUser
    \/ BroadcastFloodSleep
    \/ BroadcastProgress
    \/ BroadcastFinal

SpecBroadcast == InitBroadcast /\ [][NextBroadcast]_vars

\* /start: save_user, then a welcome; the stored welcome message is only read
StartCommand(u) ==
    /\ Deliver("start", u)
    /\ \E saved \in BOOLEAN :
         users' = IF db /\ saved THEN SaveUser(users, u) ELSE users
    /\ UNCHANGED <<welcome, bc>>
    /\ UNCHANGED qvars

\* /setwelcome: in reply to message reply_to (0: not a reply) the setting is
\* written and then confirmed; else the prompt is sent and then the flag set
SetWelcomeCommand(u) ==
    /\ Deliver("setwelcome", u)
    /\ IF db /\ IsUserAdmin(u)
       THEN \E reply_to \in 0..msgs, replied \in BOOLEAN, stored \in BOOLEAN :
              IF reply_to # 0
              THEN /\ welcome' = IF stored THEN reply_to ELSE welcome
                   /\ UNCHANGED users
              ELSE /\ users' = IF replied /\ stored
                               THEN SetWaiting(users, u, "waiting_for_welcome", TRUE)
                               ELSE users
                   /\ UNCHANGED welcome
       ELSE UNCHANGED <<users, welcome>>
    /\ UNCHANGED bc
    /\ UNCHANGED qvars

\* /broadcast that is not a reply, or is refused: the prompt, then the flag
BroadcastCommand(u) ==
    /\ Deliver("broadcast", u)
    /\ IF db /\ IsUserAdmin(u)
       THEN \E replied \in BOOLEAN, stored \in BOOLEAN :
              users' = IF replied /\ stored
                       THEN SetWaiting(users, u, "waiting_for_broadcast", TRUE)
                       ELSE users
       ELSE UNCHANGED users
    /\ UNCHANGED <<welcome, bc>>
    /\ UNCHANGED qvars

\* /cancel: reads and clears waiting_for_broadcast only
CancelCommand(u) ==
    /\ Deliver("cancel", u)
    /\ IF db /\ Waiting(users, u, "waiting_for_broadcast")
       THEN \E stored \in BOOLEAN :
              users' = IF stored
                       THEN SetWaiting(users, u, "waiting_for_broadcast", FALSE)
                       ELSE users
       ELSE UNCHANGED users
    /\ UNCHANGED <<welcome, bc>>
    /\ UNCHANGED qvars

\* a private message that is none of the commands
ReceiveMessageContent(u) ==
    /\ Deliver("content", u)
    /\ IF ~db \/ ~HasUser(users, u)
       THEN UNCHANGED <<users, welcome, bc>>
       ELSE IF Waiting(users, u, "waiting_for_broadcast")
            THEN /\ AtRest(bc)
                 /\ \E stored \in BOOLEAN :
                      IF stored
                      THEN /\ users' = SetWaiting(users, u, "waiting_for_broadcast", FALSE)
                           /\ bc' = StartRun
                      ELSE UNCHANGED <<users, bc>>
                 /\ UNCHANGED welcome
            ELSE IF Waiting(users, u, "waiting_for_welcome")
                 THEN /\ \E stored \in BOOLEAN, saved \in BOOLEAN :
                           /\ users' = IF stored
                                       THEN SetWaiting(users, u, "waiting_for_welcome", FALSE)
                                       ELSE users
                           /\ welcome' = IF stored /\ saved THEN msgs + 1 ELSE welcome
                      /\ UNCHANGED bc
                 ELSE UNCHANGED <<users, welcome, bc>>
    /\ UNCHANGED qvars

\* the private-message handlers, from an empty users_collection; with the
\* users of Actors alone a run ends before its first "Broadcasting..." update
InitAdmin ==
    /\ db \in BOOLEAN
    /\ queue = <<>>
    /\ now = 1
    /\ events = 0
    /\ pq_pc = "start"
    /\ batch = <<>>
    /\ idx = 0
    /\ pqw = IdleFrame
    /\ h_pc = "idle"
    /\ ev = NoEvent
    /\ fb = IdleFrame
    /\ hist = NoHistory(FALSE)
    /\ NoCommands

NextAdmin ==
    \/ \E u \in Actors :
         \/ StartCommand(u)
         \/ SetWelcomeCommand(u)
         \/ BroadcastCommand(u)
         \/ BroadcastCommandReply(u)
         \/ CancelCommand(u)
         \/ ReceiveMessageContent(u)
    \/ BroadcastPrepared
    \/ BroadcastStarting
    \/ CopyMessageToUser
    \/ BroadcastFloodSleep
    \/ BroadcastFinal

SpecAdmin == InitAdmin /\ [][NextAdmin]_vars


\* ------------------------------------------------------------------ claims
Status(d) ==
    IF ~d.processed THEN "Pending" ELSE IF d.failed THEN "Failed" ELSE "Processed"

\* process_queue has just come back from approve_single_request(request) and
\* has written request's outcome to the store
JustHandled ==
    /\ pq_pc = "for"
    /\ idx > 0
    /\ pqw.pc = "done"

Current == queue[batch[idx]._id]

\* C1: an item is marked Processed by process_queue only when the approval
\* succeeded for it during the same worker invocation (states the claim; the
\* code marks the item whatever the worker returned).
C1_ProcessedOnlyAfterApproval ==
    (JustHandled /\ Status(Current) = "Processed") => pqw.ok > 0

\* C2: status moves only Pending -> Pending (retries + 1), Pending ->
\* Processed or Pending -> Failed; a Processed or Failed item is never
\* written again, and no item is deleted.
C2_Step(d, e) ==
    \/ e = d
    \/ /\ Status(d) = "Pending"
       /\ \/ e = [d EXCEPT !.retries = @ + 1]
          \/ Status(e) \in {"Processed", "Failed"}

C2_TerminalItemsFrozen ==
    [][/\ Len(queue') >= Len(queue)
       /\ \A i \in 1..Len(queue) : C2_Step(queue[i], queue'[i])]_vars

\* C2 witness: the loop works on a later batch while an item of an earlier
\* batch is terminal and another item has gone Pending -> Pending.
C2_Witness ==
    /\ pq_pc = "work"
    /\ \E i \in 1..Len(queue) :
         /\ queue[i].processed
         /\ \A k \in 1..Len(batch) : batch[k]._id # i
    /\ \E j \in 1..Len(queue) : ~queue[j].processed /\ queue[j].retries > 0

\* C3: a non-retryable error of the approval (subject deactivated, or the
\* bot lacks admin rights) marks the item Failed with the error recorded, in
\* the same pass and whatever its retries (states the claim; the code marks
\* it Processed, or, after a FloodWait, counts a retry).
C3_NonRetryableMarkedFailed ==
    (/\ JustHandled
     /\ pqw.notify = "none"
     /\ \/ pqw.stat.error \in {"UserDeactivated", "ChatAdminRequired"}
        \/ pqw.exc \in {"UserDeactivated", "ChatAdminRequired"}
     /\ Current.error # "StoreError"
     /\ Current.retries = batch[idx].retries)
    => (Status(Current) = "Failed"
        /\ Current.error \in {"UserDeactivated", "ChatAdminRequired"})

\* C4: an error of the approval that is neither a rate limit nor
\* non-retryable makes the processor apply the retry policy: Failed with the
\* error when retries + 1 >= 3, else retries + 1 and still Pending (states
\* the claim; the code marks the item Processed).
C4_OtherErrorRetried ==
    (/\ JustHandled
     /\ pqw.notify = "none"
     /\ pqw.ret = "False"
     /\ pqw.stat.error = "Error"
     /\ Current.error # "StoreError")
    => IF batch[idx].retries + 1 >= MaxRetries
       THEN Status(Current) = "Failed" /\ Current.error = "Error"
       ELSE Current = IncRetries(<<batch[idx]>>, 1)[1]

\* C5 as claimed: a Failed item's stored retries equal maxRetries (3).
C5_FailedAtMaxRetries ==
    \A i \in 1..Len(queue) :
        /\ queue[i].retries <= MaxRetries
        /\ queue[i].failed => queue[i].retries = MaxRetries

\* C5 as amended: a Failed item's stored retries equal maxRetries - 1 (2):
\* the failing attempt is the third, retry_count = retries + 1 = 3 is
\* computed and never stored; and no item's retries exceed 2.
C5_FailedAtLastRetry ==
    \A i \in 1..Len(queue) :
        /\ queue[i].retries <= MaxRetries - 1
        /\ queue[i].failed => queue[i].retries = MaxRetries - 1

\* C5 witness: an item has become Failed through retry exhaustion.
C5_Witness ==
    \E i \in 1..Len(queue) : Status(queue[i]) = "Failed"

\* C6: one invocation of approve_single_request sleeps at most once, for the
\* signalled duration, and calls the approval at most twice; the outcome of
\* the second call is what the caller gets: True, or the exception raised.
C6_Frame(f) ==
    /\ f.calls <= 2
    /\ f.sleeps <= 1
    /\ f.sleeps = 1 => (f.wait >= 1 /\ f.slept = f.wait)
    /\ f.pc = "retry" => f.sleeps = 1
    /\ (f.pc = "done" /\ f.sleeps = 1) => f.calls = 2
    /\ f.calls = 2 =>
         /\ f.pc = "done"
         /\ f.sleeps = 1
         /\ \/ f.ret = "True" /\ f.exc = "none"
            \/ f.ret = "raise" /\ f.exc \in ApproveOutcomes \ {"ok"} /\ ~f.stat.recorded

C6_OneBackoffPerInvocation == C6_Frame(pqw) /\ C6_Frame(fb)

\* C6 witness: two rate-limit signals in a row, one sleep, the second signal
\* raised to the caller.
C6_Witness ==
    /\ pqw.pc = "done"
    /\ pqw.notify = "none"
    /\ pqw.calls = 2 /\ pqw.sleeps = 1
    /\ pqw.ret = "raise" /\ pqw.exc = "FloodWait"

\* C7: when the approval succeeded and a follow-up message failed, the
\* invocation returns True and records approved=true without an error
\* (states the claim; the code returns False, or approves again).
C7_Frame(f) ==
    (f.pc = "done" /\ f.notify # "none")
    => (f.ret = "True" /\ f.stat.recorded /\ f.stat.approved /\ f.stat.error = "none")

C7_NotifyFailureKeepsSuccess == C7_Frame(pqw) /\ C7_Frame(fb)

\* C8: the fetched batch has at most 10 items, all unprocessed in the store,
\* in ascending timestamp order, and they are the oldest unprocessed ones;
\* an empty result sends the loop to its idle sleep.
BatchIds == {batch[k]._id : k \in 1..Len(batch)}

C8_BatchIsOldestPending ==
    /\ (pq_pc = "for" /\ idx = 0) =>
         /\ Len(batch) <= BatchLimit
         /\ Len(batch) >= 1
         /\ Cardinality(BatchIds) = Len(batch)
         /\ \A k \in 1..Len(batch) :
              /\ batch[k]._id \in 1..Len(queue)
              /\ batch[k] = queue[batch[k]._id]
              /\ ~queue[batch[k]._id].processed
         /\ \A k \in 1..(Len(batch) - 1) : batch[k].timestamp <= batch[k + 1].timestamp
         /\ \A i \in 1..Len(queue) :
              (~queue[i].processed /\ i \notin BatchIds) =>
                 /\ Len(batch) = BatchLimit
                 /\ \A k \in 1..Len(batch) : batch[k].timestamp <= queue[i].timestamp
    /\ pq_pc = "sleep1_idle" => \A i \in 1..Len(queue) : queue[i].processed

\* C8 witness: more than 10 unprocessed documents, 10 fetched.
C8_Witness ==
    /\ pq_pc = "for" /\ idx = 0
    /\ Len(batch) = BatchLimit
    /\ \E i \in 1..Len(queue) : ~queue[i].processed /\ i \notin BatchIds

\* approval calls an invocation made after one of its calls had succeeded:
\* the follow-up messages run only after a successful first call, so a
\* FloodWait of theirs is followed by such a call
CallsAfterApproval(f) ==
    IF f.notify = "FloodWait" THEN f.calls - 1 ELSE 0

\* C9: when the insert failed and the fallback approval succeeded, the
\* subject was approved once, no approval call followed the successful one
\* (a call answered by a rate limit and retried is not counted against the
\* claim), and no queue item exists for the event (states the claim; a
\* FloodWait of a follow-up message makes the worker call the approval
\* again).
C9_FallbackApprovesOnce ==
    (/\ h_pc = "return"
     /\ ev.result = "fallback"
     /\ fb.ok >= 1)
    => (/\ fb.ok = 1
        /\ CallsAfterApproval(fb) = 0
        /\ \A i \in 1..Len(queue) : queue[i].user_id # ev.user_id)

\* C10: every join event handled by add_request_to_queue ends with an item
\* inserted or with at least one fallback approval call, also when
\* requests_queue is None (states the claim; with no store the handler
\* returns at once).
C10_EventQueuedOrFallback ==
    h_pc = "return" =>
        \/ /\ ev.result = "queued"
           /\ ev.item \in 1..Len(queue)
        \/ /\ ev.result = "fallback"
           /\ fb.calls >= 1

\* C11: an iteration of process_queue whose fetch returns no unprocessed
\* document writes nothing to the store, calls no approval, and sleeps 1 s
\* before it fetches again.
NoQueueWrite ==
    \A i \in 1..Len(queue) : queue'[i] = queue[i]

C11_IdleIterationWritesNothing ==
    [][/\ (/\ pq_pc = "fetch"
           /\ pq_pc' \notin {"fetch", "sleep5"}
           /\ \A i \in 1..Len(queue) : queue[i].processed)
          => (/\ pq_pc' = "sleep1_idle"
              /\ SleepSeconds(pq_pc') = 1
              /\ pqw' = pqw
              /\ NoQueueWrite)
       /\ pq_pc = "sleep1_idle"
          => (/\ pq_pc' \in {"sleep1_idle", "fetch"}
              /\ pqw'.calls = 0
              /\ NoQueueWrite)]_vars

\* C11 witness: the loop is in its idle sleep over a store whose documents
\* are all processed.
C11_Witness ==
    /\ pq_pc = "sleep1_idle"
    /\ Len(queue) >= 1
    /\ \A i \in 1..Len(queue) : queue[i].processed

\* C16: process_queue never ends, also when the store is unavailable
\* (states the claim; with requests_queue None the function returns before
\* its loop).
C16_LoopNeverEnds ==
    pq_pc # "returned"

\* process_queue sends the approval of the queued document j
ApproveAttemptFor(j) ==
    /\ ApproveCall("pq")
    /\ batch[idx]._id = j

\* C17: while the worker backs off after a rate limit for one chat, the
\* approval of an unprocessed document of another chat can be attempted
\* (states the claim; the loop sleeps inline and attempts nothing meanwhile).
C17_OtherChatNotBlocked ==
    \A j \in 1..Len(queue) :
        (/\ pq_pc = "work"
         /\ pqw.pc = "flood_sleep"
         /\ ~queue[j].processed
         /\ queue[j].chat_id # batch[idx].chat_id)
        => ENABLED ApproveAttemptFor(j)

\* C20 (as stated): retries never decreases, changes only by +1, written by
\* process_queue when the invocation for that document has ended, and never
\* exceeds MaxRetries; and every document is handed to approve_single_request
\* at most MaxRetries times
RetriesStep(i) ==
    /\ queue'[i].retries \in {queue[i].retries, queue[i].retries + 1}
    /\ queue'[i].retries <= MaxRetries
    /\ queue'[i].retries # queue[i].retries
       => (/\ pq_pc = "work" /\ pqw'.pc = "done"
           /\ batch[idx]._id = i)

Handled(b) ==
    CASE b.pc \in {"copy", "flood_sleep"} -> b.chunk + b.pos - 1
      [] b.pc = "progress" -> b.chunk + b.pos
      [] b.pc \in {"final", "done"} -> b.total
      [] b.pc = "raised" /\ b.at = "final" -> b.total
      [] OTHER -> 0

\* C12: at every point of a broadcast run successful + failed is the number of
\* recipients fully handled and at most total; when the loop has ended total is
\* the size of the snapshot, failed the number of recipients whose send ends
\* with an error, successful the number of the others
C12_BroadcastCounters ==
    /\ bc.successful + bc.failed = Handled(bc)
    /\ bc.successful + bc.failed <= bc.total
    /\ bc.pc \in {"final", "done"}
       => (/\ bc.total = Len(bc.recipients)
           /\ bc.failed = Cardinality(bc.plan)
           /\ bc.successful = bc.total - Cardinality(bc.plan))

C12_Witness ==
    /\ bc.pc = "done"
    /\ bc.total > ChunkSize
    /\ bc.floods >= 1
    /\ Cardinality(bc.plan) >= 1
    /\ bc.failed = Cardinality(bc.plan)

\* C13: a FloodWait from the send suspends the run for the signalled seconds
\* with the recipient and the counters unchanged, and the send to the same
\* recipient follows; the run moves on only from a send that ends, counting
\* successful when it succeeds and failed when it ends with another error; the
\* elapsed time is at least the sum of the waits slept
SamePlace(b, c) ==
    /\ c.chunk = b.chunk /\ c.pos = b.pos
    /\ c.successful = b.successful /\ c.failed = b.failed

C14_SnapshotEveryTen ==
    /\ bc.snapshots = Handled(bc) \div ProgressEvery
    /\ bc.finals <= 1
    /\ bc.finals = 1 <=> (bc.pc \in {"final", "done"} \/ (bc.pc = "raised" /\ bc.at = "final"))
    /\ bc.finals = 1 => bc.successful + bc.failed = bc.total
    /\ bc.pc = "done" => bc.snapshots = bc.total \div ProgressEvery

C14_Witness ==
    /\ bc.pc = "done"
    /\ bc.total > ChunkSize
    /\ bc.snapshots = 2
    /\ bc.finals = 1

\* C15: a run in which a status update before the final report has raised
\* still sends to every recipient and counts as the plan says
C15_UpdateFailureSwallowed ==
    (bc.lost /\ AtRest(bc))
    => (/\ bc.successful + bc.failed = bc.total
        /\ bc.failed = Cardinality(bc.plan)
        /\ bc.successful = bc.total - Cardinality(bc.plan))

\* C19: when /cancel of a user has been handled, that user's
\* waiting_for_welcome flag is not set
C19_CancelClearsWelcomePrompt ==
    cmd.kind = "cancel" => ~Waiting(users, cmd.user, "waiting_for_welcome")

\* C18: an update applied to a document that is Processed or Failed leaves the
\* document as it was (so a second mark-processed changes nothing)
C18_UpdatesIdempotentAndGuarded ==
    [][\A i \in 1..Len(queue) :
          Status(queue[i]) \in {"Processed", "Failed"} => queue'[i] = queue[i]]_vars

\* C22: every document that is processed carries approved_at; a failed one
\* carries an error, and one that is not failed carries none
C22_TerminalItemsStamped ==
    \A i \in 1..Len(queue) :
        queue[i].processed
        => (/\ queue[i].approved_at # 0
            /\ queue[i].failed => queue[i].error # "none"
            /\ ~queue[i].failed => queue[i].error = "none")

\* C24: as long as no update_one of process_queue has raised, the approval of
\* a document has returned at most once over all invocations for it, and no
\* approval call for it was made after one had returned
C24_ApprovedAtMostOnce ==
    ~hist.writeFailed
    => \A i \in 1..Len(queue) : hist.approvals[i] <= 1 /\ ~hist.late[i]

\* C21: every document in requests_queue is eventually processed (marked
\* processed or failed), other join requests arriving meanwhile
C21_EveryItemReachesTerminal ==
    \A i \in 1..MaxEvents :
        (i <= Len(queue)) ~> (i <= Len(queue) /\ queue[i].processed)

C21_Witness ==
    /\ Len(queue) >= 2
    /\ queue[1].processed /\ queue[1].failed
    /\ queue[2].processed /\ ~queue[2].failed /\ queue[2].retries >= 1

\* C23: the recipients of a run are what fetch_all_users returned when the run
\* started (nothing, when the find raised) and stay so to its end, whoever is
\* saved meanwhile; the users sent to are at every point the first recipients
\* of that list in its order, as many as are counted, and they grow by one,
\* at a send that has ended
C23_SnapshotReadOnce ==
    [][/\ (bc.pc = "prepare" /\ bc'.pc = "starting")
          => (/\ bc'.recipients \in {FetchAllUsers(users), <<>>}
              /\ bc'.total = Len(bc'.recipients))
       /\ (bc.pc \notin {"idle", "prepare"} /\ bc'.pc # "prepare")
          => (bc'.recipients = bc.recipients /\ bc'.total = bc.total)
       /\ bc'.sent = SubSeq(bc'.recipients, 1, bc'.successful + bc'.failed)
       /\ Len(bc'.sent) > Len(bc.sent)
          => (bc.pc = "copy" /\ Len(bc'.sent) = Len(bc.sent) + 1)
       /\ bc'.pc = "done" => bc'.sent = bc'.recipients]_vars

C23_Witness ==
    /\ bc.pc = "final"
    /\ bc.total >= 1
    /\ bc.sent = bc.recipients
    /\ Len(users) > bc.total
    /\ cmd.kind = "start"
    /\ \A k \in 1..Len(bc.recipients) : bc.recipients[k] # cmd.user

\* C25: only users of ADMIN_IDS have a waiting flag set; a run starts, and the
\* welcome message changes, only in the handler of a message of such a user;
\* a content message of any other user changes nothing
C25_OnlyAdminsBroadcast ==
    [][/\ \A k \in 1..Len(users') :
            (users'[k].waiting_for_broadcast \/ users'[k].waiting_for_welcome)
            => users'[k].user_id \in Admins
       /\ (bc'.pc = "prepare" /\ bc' # bc) => (cmd' # cmd /\ cmd'.user \in Admins)
       /\ welcome' # welcome => (cmd' # cmd /\ cmd'.user \in Admins)
       /\ (cmd' # cmd /\ cmd'.kind = "content" /\ cmd'.user \notin Admins)
          => (bc' = bc /\ welcome' = welcome /\ users' = users)]_vars

C25_Witness ==
    /\ cmd.kind = "content"
    /\ cmd.user \notin Admins
    /\ HasUser(users, cmd.user)
    /\ \E a \in Admins : Waiting(users, a, "waiting_for_broadcast")
    /\ AtRest(bc)

\* C26: no user document has waiting_for_broadcast and waiting_for_welcome
\* both set, and the handler of one content message does not both start a run
\* and change the welcome message
C26_AtMostOneAwaitingState ==
    [][/\ \A k \in 1..Len(users') :
            ~(users'[k].waiting_for_broadcast /\ users'[k].waiting_for_welcome)
       /\ (cmd' # cmd /\ cmd'.kind = "content")
          => ~(bc' # bc /\ welcome' # welcome)]_vars
====
